---------------------------- MODULE Spec2Model ----------------------------
(***************************************************************************)
(* Model of the rag-track ingestion pipeline:                              *)
(*   - extract/nodes.py    convert_pdfs_to_text        (the Converter)     *)
(*   - embedding/nodes.py  _split_text_into_chunks     (the Chunker)       *)
(*   - embedding/nodes.py  generate_embeddings_and_upsert (the Embedder)   *)
(* The three units share no state.  An initial state starts exactly one of  *)
(* them and leaves the other two switched off (pc = "off"), so the state    *)
(* graph of Spec is the disjoint union of the three units' state graphs.   *)
(***************************************************************************)
EXTENDS Integers, Sequences, FiniteSets, TLC

VARIABLES
    \* ---- convert_pdfs_to_text
    pdf_files,        \* the input list of storage keys
    cpc,              \* "loop" | "returned" | "raised" | "off"
    pos,              \* how many keys the for loop has consumed
    texts_data,       \* dict: derived name -> text content
    converted_index,  \* the report dict built by the loop
    put_calls,        \* successful put_object calls, in order
    \* ---- _split_text_into_chunks
    text, chunk_size, overlap,   \* the arguments
    spc,              \* "entry" | "loop" | "done" | "off"
    start,            \* local `start`
    chunks,           \* local `chunks` / the returned list
    windows,          \* the (start, end) pairs the loop has sliced, in order
    \* ---- generate_embeddings_and_upsert
    texts_partitioned,  \* the input dict, as the sequence of its items
    epc,              \* "idle" | "doc" | "embed" | "off"
    runs,             \* completed invocations of the node
    collection,       \* the vector database's "documents" collection
    create_calls,     \* create_collection calls issued so far
    doc_pos,          \* how many items the for loop has consumed
    points,           \* len(points) of the document being processed
    upsert_calls,     \* upsert calls issued by the current invocation
    embedding_report, \* the report dict
    collections_used  \* the collection_details["documents"] dict

convVars  == <<pdf_files, cpc, pos, texts_data, converted_index, put_calls>>
chunkVars == <<text, chunk_size, overlap, spc, start, chunks, windows>>
embVars   == <<texts_partitioned, epc, runs, collection, create_calls, doc_pos,
               points, upsert_calls, embedding_report, collections_used>>
vars      == <<convVars, chunkVars, embVars>>

---------------------------------------------------------------------------
(* Bounds of the model *)
MaxLen == 5
MaxChunkSize == 4
MaxIters == 10
MaxFiles == 3
MaxDocs == 2
MaxChunks == 2
MaxRuns == 2

Min(a, b) == IF a < b THEN a ELSE b
Max(a, b) == IF a > b THEN a ELSE b

---------------------------------------------------------------------------
(* _split_text_into_chunks *)

Chars == {"a", " "}

RECURSIVE SeqsUpTo(_, _)
SeqsUpTo(S, n) ==
    IF n = 0 THEN {<<>>}
    ELSE LET shorter == SeqsUpTo(S, n - 1)
         IN  shorter \cup {Append(s, c) : s \in {t \in shorter : Len(t) = n - 1}, c \in S}

Texts == SeqsUpTo(Chars, MaxLen)

\* Python's index adjustment for slices and str.rfind: a negative index counts
\* from the end of the string, and the result is clipped to [0, len].
AdjustIndex(i, n) == IF i < 0 THEN Max(i + n, 0) ELSE Min(i, n)

\* text[s:e]
Slice(t, s, e) ==
    LET lo == AdjustIndex(s, Len(t))
        hi == AdjustIndex(e, Len(t))
    IN  IF hi <= lo THEN <<>> ELSE SubSeq(t, lo + 1, hi)

\* The 0-based positions text.rfind(' ', s, e) searches that hold a space.
SpacesSearched(t, s, e) ==
    {p \in AdjustIndex(s, Len(t)) .. (AdjustIndex(e, Len(t)) - 1) : t[p + 1] = " "}

\* text.rfind(' ', s, e): the highest such position, or -1.
RFind(t, s, e) ==
    LET found == SpacesSearched(t, s, e)
    IN  IF found = {} THEN -1 ELSE CHOOSE p \in found : \A q \in found : q <= p

\* str.strip()
RECURSIVE LStrip(_)
LStrip(s) == IF s # <<>> /\ Head(s) = " " THEN LStrip(Tail(s)) ELSE s
RECURSIVE RStrip(_)
RStrip(s) == IF s # <<>> /\ s[Len(s)] = " " THEN RStrip(SubSeq(s, 1, Len(s) - 1)) ELSE s
Strip(s) == RStrip(LStrip(s))

\* Mutant: the word-boundary search is dropped, every window is cut hard.
WindowEndHardCut(t, s, cs) == s + cs

\* Lines 162-169: the end of the window that starts at s.
WindowEnd(t, s, cs) ==
    LET end == s + cs
        space_pos == RFind(t, s, end)
    IN  IF end < Len(t) /\ space_pos > s THEN space_pos ELSE end

\* Mutant: the trimmed chunk is appended even when it is empty.
EmitChunkAlways(cks, chunk) == Append(cks, chunk)

\* Lines 172-173
EmitChunk(cks, chunk) == IF chunk # <<>> THEN Append(cks, chunk) ELSE cks

\* Line 176
NextStart(t, end, ov) == IF end < Len(t) THEN end - ov ELSE end

ChunkInit ==
    /\ text \in Texts
    /\ chunk_size \in 2..MaxChunkSize
    /\ overlap \in 1..(chunk_size - 1)
    /\ spc = "entry"
    /\ start = 0
    /\ chunks = <<>>
    /\ windows = <<>>

ChunkOff ==
    /\ text = <<>> /\ chunk_size = 2 /\ overlap = 1
    /\ spc = "off" /\ start = 0 /\ chunks = <<>> /\ windows = <<>>

\* Lines 155-156: the single-chunk shortcut.
ChunkShortcut ==
    /\ spc = "entry"
    /\ Len(text) <= chunk_size
    /\ chunks' = <<text>>
    /\ spc' = "done"
    /\ UNCHANGED <<text, chunk_size, overlap, start, windows>>
    /\ UNCHANGED <<convVars, embVars>>

\* Lines 158-159
ChunkEnterLoop ==
    /\ spc = "entry"
    /\ Len(text) > chunk_size
    /\ chunks' = <<>>
    /\ start' = 0
    /\ spc' = "loop"
    /\ UNCHANGED <<text, chunk_size, overlap, windows>>
    /\ UNCHANGED <<convVars, embVars>>

\* Lines 161-176: one iteration of the while loop.
ChunkStep ==
    /\ spc = "loop"
    /\ start < Len(text)
    /\ Len(windows) < MaxIters
    /\ LET end == WindowEnd(text, start, chunk_size)
           chunk == Strip(Slice(text, start, end))
       IN  /\ windows' = Append(windows, <<start, end>>)
           /\ chunks' = EmitChunk(chunks, chunk)
           /\ start' = NextStart(text, end, overlap)
    /\ UNCHANGED <<text, chunk_size, overlap, spc>>
    /\ UNCHANGED <<convVars, embVars>>

\* Lines 161, 178: the loop condition fails and the list is returned.
ChunkReturn ==
    /\ spc = "loop"
    /\ start >= Len(text)
    /\ spc' = "done"
    /\ UNCHANGED <<text, chunk_size, overlap, start, chunks, windows>>
    /\ UNCHANGED <<convVars, embVars>>

---------------------------------------------------------------------------
(* convert_pdfs_to_text *)

Dirs == {"a", "b"}
Names == {"x", "y"}

\* A storage key "raw/pdfs/<dir>/<name>.pdf"
PdfKeys == [dir : Dirs, name : Names]

\* The lists list_pdfs_from_s3 can return: storage keys are unique.
KeyLists ==
    {s \in SeqsUpTo(PdfKeys, MaxFiles) : \A i, j \in DOMAIN s : i # j => s[i] # s[j]}

\* Line 115: Path(pdf_key).stem drops the directories and the extension.
Stem(key) == key.name

\* Line 116: f"intermedio/txt/{pdf_filename}.txt"
OutputKey(key) == <<"intermedio/txt", Stem(key), "txt">>

\* Lines 109-112: the text docling extracts; each document has its own text.
TextContent(key) == <<"markdown of", key>>

\* How one iteration ends: the step that raises, or "ok".
Outcomes == {"download_file", "convert", "put_object", "unlink", "ok"}

Raises(outcome) == outcome # "ok"

\* The steps of the try block that have completed when `outcome` happens.
PutDone(outcome) == outcome \in {"unlink", "ok"}

\* Lines 119-136: put_object and the bookkeeping that follows it inside the
\* `with` block.  st = [texts_data, index, put_calls].
RecordSuccess(st, key) ==
    [ texts_data |-> (Stem(key) :> TextContent(key)) @@ st.texts_data,
      put_calls  |-> Append(st.put_calls,
                            [pdf |-> key, key |-> OutputKey(key), body |-> TextContent(key)]),
      index      |-> [st.index EXCEPT
                        !.converted_files = Append(@, [original_pdf |-> key,
                                                       output_txt   |-> OutputKey(key),
                                                       filename     |-> Stem(key)]),
                        !.total_successful = @ + 1] ]

\* Lines 101-141: the try block, up to the point where `outcome` raises.
TryBody(st, key, outcome) ==
    IF PutDone(outcome) THEN RecordSuccess(st, key) ELSE st

\* Lines 143-150: the except block.
ExceptHandler(st, key, outcome) ==
    [st EXCEPT !.index.failed_files = Append(@, [original_pdf |-> key, error |-> outcome]),
               !.index.total_failed = @ + 1]

\* Mutant: only the storage client's errors are caught (as in list_pdfs_from_s3).
CaughtClientErrorOnly(outcome) == outcome \in {"download_file", "put_object"}

\* Line 143: `except Exception` catches whatever a step of the try block raises.
Caught(outcome) == TRUE

ConvInit ==
    /\ pdf_files \in KeyLists
    /\ cpc = "loop"
    /\ pos = 0
    /\ texts_data = <<>>
    /\ put_calls = <<>>
    /\ converted_index = [converted_files |-> <<>>, failed_files |-> <<>>,
                          total_processed |-> 0, total_successful |-> 0,
                          total_failed |-> 0]

ConvOff ==
    /\ pdf_files = <<>>
    /\ cpc = "off"
    /\ pos = 0
    /\ texts_data = <<>>
    /\ put_calls = <<>>
    /\ converted_index = [converted_files |-> <<>>, failed_files |-> <<>>,
                          total_processed |-> 0, total_successful |-> 0,
                          total_failed |-> 0]

\* Lines 100-152: one iteration of the for loop.
ConvertStep ==
    /\ cpc = "loop"
    /\ pos < Len(pdf_files)
    /\ \E outcome \in Outcomes :
         LET key == pdf_files[pos + 1]
             st0 == [texts_data |-> texts_data, index |-> converted_index,
                     put_calls |-> put_calls]
             st1 == TryBody(st0, key, outcome)
             escapes == Raises(outcome) /\ ~Caught(outcome)
             st2 == IF Raises(outcome) /\ Caught(outcome)
                    THEN ExceptHandler(st1, key, outcome) ELSE st1
         IN  /\ texts_data' = st2.texts_data
             /\ put_calls' = st2.put_calls
             /\ converted_index' =
                    IF escapes THEN st2.index
                    ELSE [st2.index EXCEPT !.total_processed = @ + 1]
             /\ cpc' = IF escapes THEN "raised" ELSE "loop"
    /\ pos' = pos + 1
    /\ UNCHANGED pdf_files
    /\ UNCHANGED <<chunkVars, embVars>>

\* Lines 154-160
ConvertReturn ==
    /\ cpc = "loop"
    /\ pos = Len(pdf_files)
    /\ cpc' = "returned"
    /\ UNCHANGED <<pdf_files, pos, texts_data, converted_index, put_calls>>
    /\ UNCHANGED <<chunkVars, embVars>>

---------------------------------------------------------------------------
(* generate_embeddings_and_upsert *)

\* Line 44
vector_size == 384

\* Lines 52-55: the collection the node creates.
DeclaredCollection == [exists |-> TRUE, size |-> vector_size, metric |-> "COSINE"]

NoCollection == [exists |-> FALSE, size |-> 0, metric |-> "none"]

\* What the database may hold before the first run: nothing, a collection like
\* the declared one, or one created by someone else with other parameters.
InitialCollections ==
    {NoCollection, DeclaredCollection, [exists |-> TRUE, size |-> 768, metric |-> "DOT"]}

\* The input dict as its items in iteration order; nchunks is the length of
\* the list _split_text_into_chunks returns for the item's text (line 86).
Documents == [filename : Names, nchunks : 0..MaxChunks]

DocLists ==
    {s \in SeqsUpTo(Documents, MaxDocs) :
        \A i, j \in DOMAIN s : i # j => s[i].filename # s[j].filename}

\* Mutant: the collection is created without looking for an existing one.
EnsureCollectionAlwaysCreates(coll) ==
    [collection |-> DeclaredCollection, created |-> 1]

\* Lines 47-55: get_collection raises when the collection does not exist, and
\* only then is create_collection called.
EnsureCollection(coll) ==
    IF coll.exists
    THEN [collection |-> coll, created |-> 0]
    ELSE [collection |-> DeclaredCollection, created |-> 1]

\* Lines 58-65
NewEmbeddingReport(docs) ==
    [total_documents |-> Len(docs), processed_documents |-> <<>>,
     failed_documents |-> <<>>, total_vectors_created |-> 0,
     total_vectors_failed |-> 0]

\* Lines 67-78
NewCollectionsUsed ==
    [vector_size |-> vector_size, distance_metric |-> "COSINE",
     documents_added |-> 0, vectors_added |-> 0]

\* Mutant: the success bookkeeping counts one vector per document.
OnSuccessOneVector(st, doc) ==
    [ report |-> [st.report EXCEPT
                    !.processed_documents =
                        Append(@, [filename |-> doc.filename, chunks_created |-> doc.nchunks]),
                    !.total_vectors_created = @ + 1],
      used   |-> [st.used EXCEPT !.documents_added = @ + 1,
                                 !.vectors_added = @ + 1] ]

\* Lines 116-124.  st = [report, used].
OnSuccess(st, doc) ==
    [ report |-> [st.report EXCEPT
                    !.processed_documents =
                        Append(@, [filename |-> doc.filename, chunks_created |-> doc.nchunks]),
                    !.total_vectors_created = @ + doc.nchunks],
      used   |-> [st.used EXCEPT !.documents_added = @ + 1,
                                 !.vectors_added = @ + doc.nchunks] ]

\* Lines 128-135
OnFailure(st, doc, error) ==
    [st EXCEPT !.report.failed_documents =
                   Append(@, [filename |-> doc.filename, error |-> error]),
               !.report.total_vectors_failed = @ + 1]

EmbInit ==
    /\ texts_partitioned \in DocLists
    /\ collection \in InitialCollections
    /\ epc = "call"
    /\ runs = 0
    /\ create_calls = 0
    /\ doc_pos = 0
    /\ points = 0
    /\ upsert_calls = <<>>
    /\ embedding_report = NewEmbeddingReport(<<>>)
    /\ collections_used = NewCollectionsUsed

EmbOff ==
    /\ texts_partitioned = <<>>
    /\ collection = NoCollection
    /\ epc = "off"
    /\ runs = 0
    /\ create_calls = 0
    /\ doc_pos = 0
    /\ points = 0
    /\ upsert_calls = <<>>
    /\ embedding_report = NewEmbeddingReport(<<>>)
    /\ collections_used = NewCollectionsUsed

\* Lines 31-78: the node is invoked; the collection is ensured and the two
\* reports are created.
EmbSetup ==
    /\ epc \in {"call", "returned"}
    /\ runs < MaxRuns
    /\ LET r == EnsureCollection(collection)
       IN  /\ collection' = r.collection
           /\ create_calls' = create_calls + r.created
    /\ runs' = runs + 1
    /\ embedding_report' = NewEmbeddingReport(texts_partitioned)
    /\ collections_used' = NewCollectionsUsed
    /\ doc_pos' = 0
    /\ points' = 0
    /\ upsert_calls' = <<>>
    /\ epc' = "doc"
    /\ UNCHANGED texts_partitioned
    /\ UNCHANGED <<convVars, chunkVars>>

\* Lines 81-88: the next item is taken, its text is split, points = [].
EmbBeginDoc ==
    /\ epc = "doc"
    /\ doc_pos < Len(texts_partitioned)
    /\ points' = 0
    /\ epc' = "embed"
    /\ UNCHANGED <<texts_partitioned, runs, collection, create_calls, doc_pos,
                   upsert_calls, embedding_report, collections_used>>
    /\ UNCHANGED <<convVars, chunkVars>>

\* Lines 89-107 (and 128-135 when embed raises): one chunk is embedded.
EmbedChunk ==
    /\ epc = "embed"
    /\ LET doc == texts_partitioned[doc_pos + 1]
           st == [report |-> embedding_report, used |-> collections_used]
       IN  /\ points < doc.nchunks
           /\ \E ok \in BOOLEAN :
                IF ok
                THEN /\ points' = points + 1
                     /\ UNCHANGED <<epc, doc_pos, embedding_report, collections_used>>
                ELSE LET f == OnFailure(st, doc, "embed")
                     IN  /\ embedding_report' = f.report
                         /\ collections_used' = f.used
                         /\ doc_pos' = doc_pos + 1
                         /\ epc' = "doc"
                         /\ UNCHANGED points
    /\ UNCHANGED <<texts_partitioned, runs, collection, create_calls, upsert_calls>>
    /\ UNCHANGED <<convVars, chunkVars>>

\* Lines 110-126 (and 128-135 when upsert raises): the document's points are
\* upserted in one call and the document is recorded.
EmbUpsert ==
    /\ epc = "embed"
    /\ LET doc == texts_partitioned[doc_pos + 1]
           st == [report |-> embedding_report, used |-> collections_used]
       IN  /\ points = doc.nchunks
           /\ \E ok \in BOOLEAN :
                LET r == IF ok THEN OnSuccess(st, doc) ELSE OnFailure(st, doc, "upsert")
                IN  /\ upsert_calls' = Append(upsert_calls,
                            [filename |-> doc.filename, points |-> points, ok |-> ok])
                    /\ embedding_report' = r.report
                    /\ collections_used' = r.used
    /\ doc_pos' = doc_pos + 1
    /\ epc' = "doc"
    /\ UNCHANGED <<texts_partitioned, runs, collection, create_calls, points>>
    /\ UNCHANGED <<convVars, chunkVars>>

\* Lines 137-140
EmbReturn ==
    /\ epc = "doc"
    /\ doc_pos = Len(texts_partitioned)
    /\ epc' = "returned"
    /\ UNCHANGED <<texts_partitioned, runs, collection, create_calls, doc_pos,
                   points, upsert_calls, embedding_report, collections_used>>
    /\ UNCHANGED <<convVars, chunkVars>>

---------------------------------------------------------------------------
Init ==
    \/ ConvInit /\ ChunkOff /\ EmbOff
    \/ ConvOff /\ ChunkInit /\ EmbOff
    \/ ConvOff /\ ChunkOff /\ EmbInit

Next ==
    \/ ConvertStep
    \/ ConvertReturn
    \/ ChunkShortcut
    \/ ChunkEnterLoop
    \/ ChunkStep
    \/ ChunkReturn
    \/ EmbSetup
    \/ EmbBeginDoc
    \/ EmbedChunk
    \/ EmbUpsert
    \/ EmbReturn

Spec == Init /\ [][Next]_vars

---------------------------------------------------------------------------
(* Helpers for the properties *)

Count(seq, P(_)) == Cardinality({i \in DOMAIN seq : P(seq[i])})

RECURSIVE SumChunks(_)
SumChunks(seq) ==
    IF seq = <<>> THEN 0 ELSE Head(seq).chunks_created + SumChunks(Tail(seq))

IsSubstring(c, t) ==
    \E i \in 0..(Len(t) - Len(c)) : SubSeq(t, i + 1, i + Len(c)) = c

ConvertedKeys ==
    {converted_index.converted_files[i].original_pdf :
        i \in DOMAIN converted_index.converted_files}

FailedKeys ==
    {converted_index.failed_files[i].original_pdf :
        i \in DOMAIN converted_index.failed_files}

ProcessedKeys == {pdf_files[i] : i \in 1..pos}

IndexOf(key) == CHOOSE i \in DOMAIN pdf_files : pdf_files[i] = key

\* The entries of a report list follow the order of their keys in pdf_files.
InInputOrder(entries) ==
    \A i, j \in DOMAIN entries :
        i < j => IndexOf(entries[i].original_pdf) < IndexOf(entries[j].original_pdf)

---------------------------------------------------------------------------
(* Properties of convert_pdfs_to_text *)

\* C1: after every iteration and at return, total_successful + total_failed
\* equals total_processed and every processed key has exactly one entry, in
\* converted_files or in failed_files, whatever step of an item fails.
C1_CountsReconcile ==
    /\ converted_index.total_successful + converted_index.total_failed
          = converted_index.total_processed
    /\ \A k \in ProcessedKeys :
          Count(converted_index.converted_files, LAMBDA e : e.original_pdf = k)
            + Count(converted_index.failed_files, LAMBDA e : e.original_pdf = k) = 1

\* C5: a failing item never aborts the batch: the loop never raises, the keys
\* are processed one at a time in input order, total_processed is N at return,
\* and both report lists follow the input order.
C5_BatchNeverAborts ==
    /\ cpc # "raised"
    /\ converted_index.total_processed = pos
    /\ ConvertedKeys \cup FailedKeys = ProcessedKeys
    /\ (cpc = "returned" => converted_index.total_processed = Len(pdf_files))
    /\ InInputOrder(converted_index.converted_files)
    /\ InInputOrder(converted_index.failed_files)

\* A batch whose first item failed and whose last item was converted has returned.
C5_Witness ==
    /\ cpc = "returned"
    /\ Len(pdf_files) >= 2
    /\ pdf_files[1] \in FailedKeys
    /\ pdf_files[Len(pdf_files)] \in ConvertedKeys
    /\ converted_index.total_processed = Len(pdf_files)

\* C7: for a key in failed_files no artifact was written and no entry was
\* added to texts_partitioned; a key in converted_files has exactly one artifact.
C7_FailedItemHasNoEffect ==
    /\ \A k \in FailedKeys :
          /\ Count(put_calls, LAMBDA c : c.pdf = k) = 0
          /\ \A n \in DOMAIN texts_data : texts_data[n] # TextContent(k)
    /\ \A k \in ConvertedKeys : Count(put_calls, LAMBDA c : c.pdf = k) = 1

\* C8: texts_partitioned has one entry per successful conversion, and every
\* success wrote an output key of its own.
C8_OneEntryPerSuccess ==
    /\ Cardinality(DOMAIN texts_data) = converted_index.total_successful
    /\ Cardinality({put_calls[i].key : i \in DOMAIN put_calls})
          = converted_index.total_successful

---------------------------------------------------------------------------
(* Properties of _split_text_into_chunks *)

\* C2: the loop terminates.  An iteration is a function of (text, chunk_size,
\* overlap, start) alone, so a loop that terminates never comes back to a
\* start position it has already sliced from.
C2_Terminates ==
    spc = "loop" => \A i \in DOMAIN windows : windows[i][1] # start

\* C3: the windows cover the text without a gap: the first starts at 0, every
\* start is >= 0 and at most the previous end, consecutive windows share at
\* most `overlap` characters, and the last end reaches len(text).
C3_WindowsCover ==
    /\ windows # <<>> => windows[1][1] = 0
    /\ \A i \in DOMAIN windows : windows[i][1] >= 0
    /\ \A i \in DOMAIN windows :
          i > 1 => /\ windows[i][1] <= windows[i - 1][2]
                   /\ windows[i - 1][2] - windows[i][1] <= overlap
    /\ (spc = "done" /\ windows # <<>>) => windows[Len(windows)][2] >= Len(text)

\* Where the window starting at s may be cut at a word boundary.
SpacesAfterStart(s) == {p \in SpacesSearched(text, s, s + chunk_size) : p > s}

\* C9 (as stated): a window that does not reach the end of the text ends at a
\* space whenever a space exists anywhere in [start, start+chunk_size), and is
\* cut hard at start+chunk_size only when that range holds no space.
C9_EndsAtAnySpace ==
    \A i \in DOMAIN windows :
        LET s == windows[i][1]
            e == windows[i][2]
            spaces == SpacesSearched(text, s, s + chunk_size)
        IN  s + chunk_size < Len(text) =>
               /\ spaces # {} => e \in spaces
               /\ e = s + chunk_size => spaces = {}

\* C9 (amended): the same for the spaces strictly after start in the range
\* rfind searches; the window then ends at the last of them.
C9_EndsAtSpaceAfterStart ==
    \A i \in DOMAIN windows :
        LET s == windows[i][1]
            e == windows[i][2]
        IN  s + chunk_size < Len(text) =>
               /\ SpacesAfterStart(s) # {} =>
                     /\ e \in SpacesAfterStart(s)
                     /\ \A p \in SpacesAfterStart(s) : p <= e
               /\ e = s + chunk_size => SpacesAfterStart(s) = {}

\* A window was shortened to a space, and another one was cut hard although
\* its first character is a space.
C9_Witness ==
    /\ \E i \in DOMAIN windows :
          /\ windows[i][1] + chunk_size < Len(text)
          /\ windows[i][2] < windows[i][1] + chunk_size
          /\ windows[i][2] \in SpacesAfterStart(windows[i][1])
    /\ \E i \in DOMAIN windows :
          /\ windows[i][1] >= 0
          /\ windows[i][1] + chunk_size < Len(text)
          /\ text[windows[i][1] + 1] = " "
          /\ windows[i][2] = windows[i][1] + chunk_size

\* C10 (as stated): every returned chunk is a non-empty substring of the text
\* of at most chunk_size characters, for every text.
C10_ChunksNonEmpty ==
    \A i \in DOMAIN chunks :
        /\ chunks[i] # <<>>
        /\ Len(chunks[i]) <= chunk_size
        /\ IsSubstring(chunks[i], text)

\* C10 (amended): that holds for every non-empty text; for the empty text the
\* shortcut returns the single chunk "".
C10_ChunksOfNonEmptyText ==
    /\ text # <<>> =>
          \A i \in DOMAIN chunks :
              /\ chunks[i] # <<>>
              /\ Len(chunks[i]) <= chunk_size
              /\ IsSubstring(chunks[i], text)
    /\ (text = <<>> /\ spc = "done") => chunks = << <<>> >>

\* The loop has returned having emitted a chunk and skipped a window that was
\* empty after trimming.
C10_Witness ==
    /\ text # <<>>
    /\ spc = "done"
    /\ Len(chunks) >= 1
    /\ Len(windows) > Len(chunks)

---------------------------------------------------------------------------
(* Properties of generate_embeddings_and_upsert *)

\* C4: a document is all-or-none.  upsert is called at most once per document
\* and with all of its chunks embedded; a document has one entry in
\* processed_documents (with its chunk count) exactly when its upsert
\* succeeded, and one entry in failed_documents exactly when a step raised;
\* the vector and document totals count the processed documents only; at
\* return the two lists hold total_documents entries.
C4_AllOrNone ==
    LET proc == embedding_report.processed_documents
        fail == embedding_report.failed_documents
    IN  /\ \A i \in DOMAIN texts_partitioned :
              LET d  == texts_partitioned[i]
                  np == Count(proc, LAMBDA e : e.filename = d.filename)
                  nf == Count(fail, LAMBDA e : e.filename = d.filename)
                  nu == Count(upsert_calls, LAMBDA u : u.filename = d.filename)
                  ok == Count(upsert_calls, LAMBDA u : u.filename = d.filename /\ u.ok)
              IN  /\ nu <= 1
                  /\ np = ok
                  /\ np + nf = (IF i <= doc_pos THEN 1 ELSE 0)
                  /\ \A j \in DOMAIN upsert_calls :
                        upsert_calls[j].filename = d.filename
                            => upsert_calls[j].points = d.nchunks
                  /\ \A j \in DOMAIN proc :
                        proc[j].filename = d.filename
                            => proc[j].chunks_created = d.nchunks
        /\ embedding_report.total_vectors_created = SumChunks(proc)
        /\ collections_used.vectors_added = SumChunks(proc)
        /\ collections_used.documents_added = Len(proc)
        /\ epc = "returned" =>
              Len(proc) + Len(fail) = embedding_report.total_documents

\* A run has returned with a two-chunk document processed and another
\* two-chunk document failed before its upsert.
C4_Witness ==
    /\ epc = "returned"
    /\ \E e \in {embedding_report.processed_documents[i] :
                    i \in DOMAIN embedding_report.processed_documents} :
          e.chunks_created = 2
    /\ \E i \in DOMAIN texts_partitioned :
          /\ texts_partitioned[i].nchunks = 2
          /\ Count(embedding_report.failed_documents,
                   LAMBDA e : e.filename = texts_partitioned[i].filename) = 1
          /\ Count(upsert_calls,
                   LAMBDA u : u.filename = texts_partitioned[i].filename) = 0

=============================================================================
